---- MODULE Spec2Model ----
(***************************************************************************)
(* addManSectionEntry.py: an interactive script that fills two text        *)
(* templates with operator input and appends the result to OutputMan.txt.  *)
(*                                                                         *)
(* Text is modelled as a sequence of one-character strings, so that        *)
(* str.replace, line iteration and int() are computed character by         *)
(* character.  The script is a straight-line program; pc is the statement  *)
(* about to run, one action per statement.  Data handed to o.write is      *)
(* modelled as reaching the file at the write (the interpreter flushes and  *)
(* closes a leaked file object when it exits).                             *)
(***************************************************************************)
EXTENDS Integers, Sequences, FiniteSets

(* ---------------------------- bounds ----------------------------------- *)

\* Largest option count the operator is offered.
MaxCount == 2

\* Number of times the stored entry template is edited during one run.
MaxEdits == 1

(* ---------------------------- literals --------------------------------- *)

NL == "\n"

TOK_SECTION_NAME ==
    <<"S", "E", "C", "T", "I", "O", "N", "_", "N", "A", "M", "E">>

TOK_SECTION_HYPHENED_NAME ==
    <<"S", "E", "C", "T", "I", "O", "N", "_", "H", "Y", "P", "H", "E", "N", "E", "D", "_", "N", "A", "M", "E">>

TOK_OPT_FORMAT ==
    <<"O", "P", "T", "_", "F", "O", "R", "M", "A", "T">>

TOK_OPT_ARG ==
    <<"O", "P", "T", "_", "A", "R", "G">>

TOK_OPT_DESC ==
    <<"O", "P", "T", "_", "D", "E", "S", "C">>

TOK_OPT_NAME ==
    <<"O", "P", "T", "_", "N", "A", "M", "E">>

ReplaceableOpen ==
    <<"<", "r", "e", "p", "l", "a", "c", "e", "a", "b", "l", "e", ">">>

ReplaceableClose ==
    <<"<", "/", "r", "e", "p", "l", "a", "c", "e", "a", "b", "l", "e", ">">>

line1 ==
    <<" ", " ", " ", " ", "<", "/", "v", "a", "r", "i", "a", "b", "l", "e", "l", "i", "s", "t", ">">>

line2 ==
    <<" ", " ", " ", "<", "/", "r", "e", "f", "s", "e", "c", "t", "1", ">">>

(* ------------------------ str / file helpers --------------------------- *)

IsPrefix(p, s) ==
    /\ Len(p) <= Len(s)
    /\ SubSeq(s, 1, Len(p)) = p

\* str.find(old, k): the first position at or after k where old occurs in
\* s, 0 if there is none.
RECURSIVE Find(_, _, _)
Find(s, k, old) ==
    IF k + Len(old) - 1 > Len(s) THEN 0
    ELSE IF s[k] = old[1] /\ SubSeq(s, k, k + Len(old) - 1) = old THEN k
         ELSE Find(s, k + 1, old)

\* The scan of str.replace from position k on: the text up to the next
\* occurrence is copied, the occurrence replaced, and the scan resumes
\* behind it.
RECURSIVE ReplaceFrom(_, _, _, _)
ReplaceFrom(s, k, old, new) ==
    LET m == Find(s, k, old)
    IN  IF m = 0 THEN SubSeq(s, k, Len(s))
        ELSE SubSeq(s, k, m - 1) \o new
                 \o ReplaceFrom(s, m + Len(old), old, new)

\* str.replace(old, new): every non-overlapping occurrence, left to right.
Replace(s, old, new) == ReplaceFrom(s, 1, old, new)

\* Position of the first line terminator of c at or after k, 0 if none.
RECURSIVE NLFrom(_, _)
NLFrom(c, k) ==
    IF k > Len(c) THEN 0
    ELSE IF c[k] = NL THEN k ELSE NLFrom(c, k + 1)

FirstNL(c) == NLFrom(c, 1)

\* Iterating a text file: each line keeps its terminator, the last line may
\* have none.
RECURSIVE FileLines(_)
FileLines(c) ==
    IF c = <<>> THEN <<>>
    ELSE LET k == FirstNL(c)
         IN  IF k = 0 THEN <<c>>
             ELSE <<SubSeq(c, 1, k)>> \o FileLines(SubSeq(c, k + 1, Len(c)))

\* A file on disk: present or not, with its content.
Missing == [exists |-> FALSE, content |-> <<>>]

Stored(c) == [exists |-> TRUE, content |-> c]

\* A reading open that passes a missing file off as an empty one.
CanOpenFallback(f) == TRUE

\* open(name) for reading succeeds only on an existing file.
CanOpen(f) == f.exists

\* Mode "w" instead of "a": the existing content is dropped.
OpenTruncate(c) == <<>>

\* open("OutputMan.txt", "a"): the existing content is kept.
OpenAppend(c) == c

\* o.write(data) on a file opened for append.
Write(c, data) == c \o data

(* ------------------------------ int() ---------------------------------- *)

DigitChars == <<"0", "1", "2", "3", "4", "5", "6", "7", "8", "9">>

IsDigit(ch) == \E d \in 1..10 : DigitChars[d] = ch

DigitVal(ch) == (CHOOSE d \in 1..10 : DigitChars[d] = ch) - 1

RECURSIVE DecVal(_)
DecVal(d) ==
    IF d = <<>> THEN 0
    ELSE 10 * DecVal(SubSeq(d, 1, Len(d) - 1)) + DigitVal(d[Len(d)])

RECURSIVE LStrip(_)
LStrip(s) == IF s # <<>> /\ Head(s) = " " THEN LStrip(Tail(s)) ELSE s

RECURSIVE RStrip(_)
RStrip(s) ==
    IF s # <<>> /\ s[Len(s)] = " " THEN RStrip(SubSeq(s, 1, Len(s) - 1)) ELSE s

\* A parse that takes unparseable text as 0 instead of raising.
intLenient(s) ==
    LET t      == RStrip(LStrip(s))
        signed == t # <<>> /\ t[1] \in {"+", "-"}
        d      == IF signed THEN Tail(t) ELSE t
        good   == d # <<>> /\ \A k \in 1..Len(d) : IsDigit(d[k])
    IN  [ok |-> TRUE, val |-> IF good THEN DecVal(d) ELSE 0]

\* int(text): surrounding blanks stripped, an optional sign, then at least
\* one decimal digit; anything else raises ValueError (ok = FALSE).
int(s) ==
    LET t      == RStrip(LStrip(s))
        signed == t # <<>> /\ t[1] \in {"+", "-"}
        d      == IF signed THEN Tail(t) ELSE t
        good   == d # <<>> /\ \A k \in 1..Len(d) : IsDigit(d[k])
        mag    == IF good THEN DecVal(d) ELSE 0
    IN  [ok  |-> good,
         val |-> IF signed /\ t[1] = "-" THEN 0 - mag ELSE mag]

\* A loop bound that is off by one.
RangeHasNextInclusive(k, n) == k <= n

\* range(n) yields k exactly when 0 <= k < n.
RangeHasNext(k, n) == k < n

(* --------------------------- rendering --------------------------------- *)

\* Lines 10-11: the two section substitutions, in this order.
RenderSectionLine(l, sname, hname) ==
    Replace(Replace(l, TOK_SECTION_NAME, sname), TOK_SECTION_HYPHENED_NAME, hname)

\* Lines 30-33: the OPT_ARG branch.
ArgMarkup(arg) ==
    IF arg = <<>> THEN <<>> ELSE ReplaceableOpen \o arg \o ReplaceableClose

\* Lines 29-35: the four entry substitutions, in this order.
RenderEntryLine(l, fmt, arg, desc, name) ==
    Replace(Replace(Replace(Replace(l, TOK_OPT_FORMAT, fmt),
                            TOK_OPT_ARG, ArgMarkup(arg)),
                    TOK_OPT_DESC, desc),
            TOK_OPT_NAME, name)

\* A template kept from the first iteration that read it.
EntryTemplateCached(store, earlier) ==
    IF earlier # <<>> THEN earlier[1] ELSE store

\* Line 28: the entry template is opened anew in every iteration; what an
\* earlier iteration read is not consulted.
EntryTemplateRead(store, earlier) == store

(* ------------------- operator input and stored files ------------------- *)

SectionTemplateA ==
    <<"<", "s", " ", "i", "d", "=", "S", "E", "C", "T", "I", "O", "N", "_", "H", "Y", "P", "H", "E", "N", "E", "D", "_", "N", "A", "M", "E", ">", "\n", "S", "E", "C", "T", "I", "O", "N", "_", "N", "A", "M", "E", "\n">>

EntryTemplateA ==
    <<"-", "-", "O", "P", "T", "_", "F", "O", "R", "M", "A", "T", " ", "O", "P", "T", "_", "A", "R", "G", "\n", "O", "P", "T", "_", "D", "E", "S", "C", " ", "(", "O", "P", "T", "_", "N", "A", "M", "E", ")", "\n">>

EntryTemplateB ==
    <<"O", "P", "T", "_", "F", "O", "R", "M", "A", "T", "D", "E", "S", "C", "=", "O", "P", "T", "_", "A", "R", "G">>

OldContent ==
    <<"o", "l", "d", "\n">>

SectionStores == {Stored(SectionTemplateA), Missing}

EntryStores == {Stored(EntryTemplateA), Stored(EntryTemplateB), Missing}

InitialOutputs == {<<>>, OldContent}

SectionNames == {<<"T", "C", "P">>}

HyphenedNames == {<<"t", "c", "p">>}

\* What the operator may type at "Number of options: ".
CountInputs ==
    {<<"a", "b", "c">>, <<>>, <<"-", "1">>, <<" ", "1">>}
        \cup {<<DigitChars[k + 1]>> : k \in 0..MaxCount}

OptFormats == {<<"t", "c">>, <<"O", "P", "T", "_">>}

OptArgs == {<<>>, <<"p", "n">>, <<"O", "P", "T", "_", "D", "E", "S", "C">>}

OptDescs == {<<"T", "M">>}

OptNames == {<<"t", "n">>}

\* A name the script has not assigned yet (no typed text equals it).
Unbound == <<"unbound">>

(* ------------------------------ state ---------------------------------- *)

VARIABLES
    pc,           \* the statement about to run, or "Done" / "Aborted"
    err,          \* the exception that ended the run, "" if none
    sectionname, hyphname, my_range,
    optformat, optarg, optdesc, optname,
    count,        \* int(my_range), held by the range object
    i,            \* the loop variable of line 21 (-1: not bound yet)
    lines,        \* lines the open template iterator has not yielded yet
    line,         \* the variable line: the line last written
    o,            \* the output file object: "none", "open", "closed"
    file,         \* content of OutputMan.txt
    outWritable,  \* whether OutputMan.txt can be opened for append
    sectionStore, \* man-section-template.xml on disk
    entryStore,   \* man-section-entry-template.xml on disk
    edits,        \* edits made to the entry template so far
    file0,        \* history: content of OutputMan.txt before the run
    entryStore0,  \* history: the entry template when the run started
    raw,          \* history: the template line that line was rendered from,
                  \* which loop read it and for which option
    loaded,       \* history: the entry template on disk at each open of it
    opens         \* history: number of times OutputMan.txt was opened

vars ==
    <<pc, err, sectionname, hyphname, my_range, optformat, optarg, optdesc,
      optname, count, i, lines, line, o, file, outWritable, sectionStore,
      entryStore, edits, file0, entryStore0, raw, loaded, opens>>

inputs == <<sectionname, hyphname, my_range>>

opts == <<optformat, optarg, optdesc, optname>>

disk == <<sectionStore, entryStore, edits, outWritable>>

hist == <<file0, entryStore0>>

Init ==
    /\ pc = "input_sectionname"
    /\ err = ""
    /\ sectionname = <<>> /\ hyphname = <<>> /\ my_range = Unbound
    /\ optformat = <<>> /\ optarg = <<>> /\ optdesc = <<>> /\ optname = <<>>
    /\ count = 0
    /\ i = -1
    /\ lines = <<>>
    /\ line = <<>>
    /\ o = "none"
    /\ file \in InitialOutputs
    /\ outWritable \in BOOLEAN
    /\ sectionStore \in SectionStores
    /\ entryStore \in EntryStores
    /\ edits = 0
    /\ file0 = file
    /\ entryStore0 = entryStore
    /\ raw = [kind |-> "none", opt |-> 0, text |-> <<>>]
    /\ loaded = <<>>
    /\ opens = 0

(* ----------------------------- the script ------------------------------ *)

\* Line 4.
InputSectionName ==
    /\ pc = "input_sectionname"
    /\ \E v \in SectionNames : sectionname' = v
    /\ pc' = "input_hyphname"
    /\ UNCHANGED <<err, hyphname, my_range, opts, count, i, lines, line, o,
                   file, disk, hist, raw, loaded, opens>>

\* Line 5.
InputHyphName ==
    /\ pc = "input_hyphname"
    /\ \E v \in HyphenedNames : hyphname' = v
    /\ pc' = "open_output"
    /\ UNCHANGED <<err, sectionname, my_range, opts, count, i, lines, line, o,
                   file, disk, hist, raw, loaded, opens>>

\* Line 8: o = open("OutputMan.txt", "a").
OpenOutput ==
    /\ pc = "open_output"
    /\ IF outWritable
       THEN /\ o' = "open"
            /\ file' = OpenAppend(file)
            /\ opens' = opens + 1
            /\ pc' = "open_section_template"
            /\ err' = err
       ELSE /\ pc' = "Aborted"
            /\ err' = "WriteError"
            /\ UNCHANGED <<o, file, opens>>
    /\ UNCHANGED <<inputs, opts, count, i, lines, line, disk, hist, raw, loaded>>

\* Line 9: open("man-section-template.xml") and start iterating its lines.
OpenSectionTemplate ==
    /\ pc = "open_section_template"
    /\ IF CanOpen(sectionStore)
       THEN /\ lines' = FileLines(sectionStore.content)
            /\ pc' = IF lines' = <<>> THEN "input_my_range" ELSE "section_line"
            /\ err' = err
       ELSE /\ pc' = "Aborted"
            /\ err' = "ResourceNotFound"
            /\ lines' = lines
    /\ UNCHANGED <<inputs, opts, count, i, line, o, file, disk, hist, raw,
                   loaded, opens>>

\* Lines 9-12: one pass of the section loop body.
SectionLine ==
    /\ pc = "section_line"
    /\ raw' = [kind |-> "section", opt |-> 0, text |-> Head(lines)]
    /\ line' = RenderSectionLine(Head(lines), sectionname, hyphname)
    /\ file' = Write(file, line')
    /\ lines' = Tail(lines)
    /\ pc' = IF lines' = <<>> THEN "input_my_range" ELSE "section_line"
    /\ UNCHANGED <<err, inputs, opts, count, i, o, disk, hist, loaded, opens>>

\* Lines 15-19.
InputMyRange ==
    /\ pc = "input_my_range"
    /\ \E v \in CountInputs : my_range' = v
    /\ optformat' = <<>> /\ optarg' = <<>> /\ optdesc' = <<>> /\ optname' = <<>>
    /\ pc' = "for_range"
    /\ UNCHANGED <<err, sectionname, hyphname, count, i, lines, line, o, file,
                   disk, hist, raw, loaded, opens>>

\* Line 21: range(int(my_range)) and the first pass of the for statement.
ForRange ==
    /\ pc = "for_range"
    /\ LET r == int(my_range)
       IN  IF r.ok
           THEN /\ count' = r.val
                /\ err' = err
                /\ IF RangeHasNext(0, r.val)
                   THEN i' = 0 /\ pc' = "input_optformat"
                   ELSE i' = i /\ pc' = "write_line1"
           ELSE /\ pc' = "Aborted"
                /\ err' = "InputError"
                /\ UNCHANGED <<count, i>>
    /\ UNCHANGED <<inputs, opts, lines, line, o, file, disk, hist, raw, loaded,
                   opens>>

\* Line 22.
InputOptFormat ==
    /\ pc = "input_optformat"
    /\ \E v \in OptFormats : optformat' = Append(optformat, v)
    /\ pc' = "input_optarg"
    /\ UNCHANGED <<err, inputs, optarg, optdesc, optname, count, i, lines, line,
                   o, file, disk, hist, raw, loaded, opens>>

\* Line 23.
InputOptArg ==
    /\ pc = "input_optarg"
    /\ \E v \in OptArgs : optarg' = Append(optarg, v)
    /\ pc' = "input_optdesc"
    /\ UNCHANGED <<err, inputs, optformat, optdesc, optname, count, i, lines,
                   line, o, file, disk, hist, raw, loaded, opens>>

\* Line 24.
InputOptDesc ==
    /\ pc = "input_optdesc"
    /\ \E v \in OptDescs : optdesc' = Append(optdesc, v)
    /\ pc' = "input_optname"
    /\ UNCHANGED <<err, inputs, optformat, optarg, optname, count, i, lines,
                   line, o, file, disk, hist, raw, loaded, opens>>

\* Line 25.
InputOptName ==
    /\ pc = "input_optname"
    /\ \E v \in OptNames : optname' = Append(optname, v)
    /\ pc' = "open_entry_template"
    /\ UNCHANGED <<err, inputs, optformat, optarg, optdesc, count, i, lines,
                   line, o, file, disk, hist, raw, loaded, opens>>

\* The for statement of line 21 after pass k of its body.
AfterPass(k) ==
    IF RangeHasNext(k + 1, count) THEN "input_optformat" ELSE "write_line1"

\* Line 28: open("man-section-entry-template.xml") and start iterating.
OpenEntryTemplate ==
    /\ pc = "open_entry_template"
    /\ loaded' = Append(loaded, entryStore)
    /\ LET f == EntryTemplateRead(entryStore, loaded)
       IN  IF CanOpen(f)
           THEN /\ lines' = FileLines(f.content)
                /\ err' = err
                /\ IF lines' = <<>>
                   THEN /\ pc' = AfterPass(i)
                        /\ i' = IF pc' = "input_optformat" THEN i + 1 ELSE i
                   ELSE pc' = "entry_line" /\ i' = i
           ELSE /\ pc' = "Aborted"
                /\ err' = "ResourceNotFound"
                /\ UNCHANGED <<lines, i>>
    /\ UNCHANGED <<inputs, opts, count, line, o, file, disk, hist, raw, opens>>

\* Lines 28-36: one pass of the entry loop body, for option i.
EntryLine ==
    /\ pc = "entry_line"
    /\ raw' = [kind |-> "entry", opt |-> i + 1, text |-> Head(lines)]
    /\ line' = RenderEntryLine(Head(lines), optformat[i + 1], optarg[i + 1],
                               optdesc[i + 1], optname[i + 1])
    /\ file' = Write(file, line')
    /\ lines' = Tail(lines)
    /\ IF lines' = <<>>
       THEN /\ pc' = AfterPass(i)
            /\ i' = IF pc' = "input_optformat" THEN i + 1 ELSE i
       ELSE pc' = "entry_line" /\ i' = i
    /\ UNCHANGED <<err, inputs, opts, count, o, disk, hist, loaded, opens>>

\* Lines 38 and 40: o.write(line1).
WriteLine1 ==
    /\ pc = "write_line1"
    /\ file' = Write(file, line1)
    /\ pc' = "write_line2"
    /\ UNCHANGED <<err, inputs, opts, count, i, lines, line, o, disk, hist, raw,
                   loaded, opens>>

\* Lines 39 and 41: o.write(line2).
WriteLine2 ==
    /\ pc = "write_line2"
    /\ file' = Write(file, line2)
    /\ pc' = "close"
    /\ UNCHANGED <<err, inputs, opts, count, i, lines, line, o, disk, hist, raw,
                   loaded, opens>>

\* Line 42: o.close().
Close ==
    /\ pc = "close"
    /\ o' = "closed"
    /\ pc' = "Done"
    /\ UNCHANGED <<err, inputs, opts, count, i, lines, line, file, disk, hist,
                   raw, loaded, opens>>

(* --------------------------- the environment --------------------------- *)

PromptStates ==
    {"input_sectionname", "input_hyphname", "input_my_range", "input_optformat",
     "input_optarg", "input_optdesc", "input_optname"}

\* Someone edits, removes or restores the entry template while the script
\* waits in input(); the script blocks nowhere else, and an open file is
\* read as it was when opened.
EditEntryTemplate ==
    /\ pc \in PromptStates
    /\ edits < MaxEdits
    /\ \E f \in EntryStores \ {entryStore} : entryStore' = f
    /\ edits' = edits + 1
    /\ UNCHANGED <<pc, err, inputs, opts, count, i, lines, line, o, file,
                   outWritable, sectionStore, hist, raw, loaded, opens>>

Next ==
    \/ InputSectionName
    \/ InputHyphName
    \/ OpenOutput
    \/ OpenSectionTemplate
    \/ SectionLine
    \/ InputMyRange
    \/ ForRange
    \/ InputOptFormat
    \/ InputOptArg
    \/ InputOptDesc
    \/ InputOptName
    \/ OpenEntryTemplate
    \/ EntryLine
    \/ WriteLine1
    \/ WriteLine2
    \/ Close
    \/ EditEntryTemplate

Spec == Init /\ [][Next]_vars

(* ------------------- what a run is expected to append ------------------ *)

RECURSIVE Flatten(_)
Flatten(ss) == IF ss = <<>> THEN <<>> ELSE Head(ss) \o Flatten(Tail(ss))

\* The section template as rendered by lines 9-12.
RenderedSection ==
    LET L == FileLines(sectionStore.content)
    IN  Flatten([k \in 1..Len(L) |->
                    RenderSectionLine(L[k], sectionname, hyphname)])

\* Block j (1-based): the entry template as it was on disk when iteration j
\* opened it, rendered with the j-th entered option.
RenderedBlock(j) ==
    LET L == FileLines(loaded[j].content)
    IN  Flatten([k \in 1..Len(L) |->
                    RenderEntryLine(L[k], optformat[j], optarg[j], optdesc[j],
                                    optname[j])])

RenderedBlocks(m) == Flatten([j \in 1..m |-> RenderedBlock(j)])

OptionPromptStates ==
    {"input_optformat", "input_optarg", "input_optdesc", "input_optname"}

EndsWith(s, t) ==
    /\ Len(t) <= Len(s)
    /\ SubSeq(s, Len(s) - Len(t) + 1, Len(s)) = t

Occurrences(s, p) ==
    Cardinality({k \in 1..Len(s) : IsPrefix(p, SubSeq(s, k, Len(s)))})

Tokens ==
    <<TOK_SECTION_NAME, TOK_SECTION_HYPHENED_NAME, TOK_OPT_FORMAT, TOK_OPT_ARG,
      TOK_OPT_DESC, TOK_OPT_NAME>>

TokenFree(v) == \A t \in 1..Len(Tokens) : Occurrences(v, Tokens[t]) = 0

\* One pass over s: each occurrence of toks[t] becomes vals[t], and text
\* that was substituted in is not looked at again.
RECURSIVE Substitute(_, _, _)
Substitute(s, toks, vals) ==
    IF s = <<>> THEN <<>>
    ELSE IF \E t \in 1..Len(toks) : IsPrefix(toks[t], s)
         THEN LET t == CHOOSE u \in 1..Len(toks) : IsPrefix(toks[u], s)
              IN  vals[t] \o Substitute(SubSeq(s, Len(toks[t]) + 1, Len(s)),
                                        toks, vals)
         ELSE <<Head(s)>> \o Substitute(Tail(s), toks, vals)

(* ------------------------------ claims --------------------------------- *)

\* C1: a completed run with entered count N >= 0 has appended the rendered
\* section template, then exactly N option blocks in the order the options
\* were entered (block j from the j-th entered fields), then line1 and line2
\* and nothing else; with N = 0 the closing strings follow the section.
Claim_C1 ==
    (pc = "Done" /\ count >= 0) =>
        /\ Len(optformat) = count /\ Len(optarg) = count
        /\ Len(optdesc) = count /\ Len(optname) = count
        /\ Len(loaded) = count
        /\ file = file0 \o RenderedSection \o RenderedBlocks(count)
                        \o line1 \o line2

Witness_C1 ==
    /\ pc = "Done"
    /\ count = 2
    /\ <<optformat[1], optarg[1]>> # <<optformat[2], optarg[2]>>
    /\ RenderedBlock(1) # RenderedBlock(2)

NonIntegerTexts == {<<"a", "b", "c">>, <<>>}

\* C2: once text that is no integer has been entered for the option count
\* and line 21 has run, the run is aborted with InputError, no option was
\* prompted for, no block and no closing string was written, and the
\* rendered section is already in the output.
Claim_C2 ==
    (my_range \in NonIntegerTexts /\ pc # "for_range") =>
        /\ pc = "Aborted"
        /\ err = "InputError"
        /\ optformat = <<>> /\ optarg = <<>> /\ optdesc = <<>> /\ optname = <<>>
        /\ loaded = <<>>
        /\ file = file0 \o RenderedSection

Witness_C2 ==
    /\ pc = "Aborted"
    /\ err = "InputError"
    /\ my_range = <<"a", "b", "c">>
    /\ Len(file) > Len(file0)

\* C3: the output file is opened at most once, and in no terminal state of
\* a run (completed or aborted) is the file object still open.
Claim_C3 ==
    /\ opens <= 1
    /\ pc \in {"Done", "Aborted"} => o # "open"

\* C4: a negative integer entered as the option count aborts the run with
\* InputError; the run does not carry on to the closing strings.
Claim_C4 ==
    (my_range # Unbound /\ pc # "for_range" /\ int(my_range).ok
       /\ int(my_range).val < 0) =>
        pc = "Aborted" /\ err = "InputError"

\* C5: in every state of a run the content OutputMan.txt had before the run
\* is an unchanged prefix of its current content.
Claim_C5 == IsPrefix(file0, file)

Witness_C5 ==
    /\ file0 # <<>>
    /\ pc \in {"Done", "Aborted"}
    /\ Len(file) > Len(file0)

\* C6: when no entered value contains a placeholder token, every written
\* line is the template line with each token occurrence substituted once
\* and all other text unchanged (a substituted value is never rewritten by
\* a later replacement).
Claim_C6 ==
    /\ (raw.kind = "section" /\ TokenFree(sectionname) /\ TokenFree(hyphname)) =>
           line = Substitute(raw.text,
                             <<TOK_SECTION_NAME, TOK_SECTION_HYPHENED_NAME>>,
                             <<sectionname, hyphname>>)
    /\ (raw.kind = "entry" /\ TokenFree(optformat[raw.opt])
          /\ TokenFree(optarg[raw.opt]) /\ TokenFree(optdesc[raw.opt])
          /\ TokenFree(optname[raw.opt])) =>
           line = Substitute(raw.text,
                             <<TOK_OPT_FORMAT, TOK_OPT_ARG, TOK_OPT_DESC,
                               TOK_OPT_NAME>>,
                             <<optformat[raw.opt],
                               IF optarg[raw.opt] = <<>> THEN <<>>
                               ELSE ReplaceableOpen \o optarg[raw.opt]
                                        \o ReplaceableClose,
                               optdesc[raw.opt], optname[raw.opt]>>)

\* C7: in a written entry line, an empty argName leaves no wrapper markup,
\* and a non-empty argName appears wrapped, as entered, once for every
\* OPT_ARG of the template line.
Claim_C7 ==
    raw.kind = "entry" =>
        LET a == optarg[raw.opt]
        IN  IF a = <<>>
            THEN /\ Occurrences(line, ReplaceableOpen) = 0
                 /\ Occurrences(line, ReplaceableClose) = 0
            ELSE Occurrences(line, ReplaceableOpen \o a \o ReplaceableClose)
                     = Occurrences(raw.text, TOK_OPT_ARG)

\* C8 as stated: if either template is missing when the run starts, the run
\* never gets as far as the closing strings, whatever the option count.
Claim_C8_AsStated ==
    (~sectionStore.exists \/ ~entryStore0.exists) =>
        pc \notin {"write_line2", "close", "Done"}

\* C8 as amended: a template found missing at the moment the run opens it
\* (the section template at line 9, the entry template at line 28 of an
\* iteration) aborts the run with ResourceNotFound right there, with nothing
\* written after that open and no closing string.
Claim_C8 ==
    /\ (o # "none" /\ pc # "open_section_template" /\ ~sectionStore.exists) =>
           /\ pc = "Aborted" /\ err = "ResourceNotFound"
           /\ file = file0
    /\ \A j \in 1..Len(loaded) :
           ~loaded[j].exists =>
               /\ pc = "Aborted" /\ err = "ResourceNotFound"
               /\ j = Len(loaded)
               /\ file = file0 \o RenderedSection \o RenderedBlocks(j - 1)

Witness_C8 ==
    /\ pc = "Aborted"
    /\ err = "ResourceNotFound"
    /\ Len(loaded) = 2
    /\ ~loaded[2].exists

\* C9: a completed run ends the output with line1 and line2 as two lines:
\* line1 starts a line, and a line terminator separates it from line2.
Claim_C9 ==
    pc = "Done" =>
        \E tail \in {line1 \o <<NL>> \o line2, line1 \o <<NL>> \o line2 \o <<NL>>} :
            /\ EndsWith(file, tail)
            /\ \/ Len(file) = Len(tail)
               \/ file[Len(file) - Len(tail)] = NL

\* C10: in iteration i the four prompts are answered before the entry
\* template is opened and before anything of block i is written; at every
\* prompt of iteration i the blocks before i are written completely and
\* nothing of block i is; and each block is rendered from the entry
\* template as stored when its own iteration opened it.
Claim_C10 ==
    /\ pc \in {"open_entry_template", "entry_line"} =>
           /\ Len(optformat) = i + 1 /\ Len(optarg) = i + 1
           /\ Len(optdesc) = i + 1 /\ Len(optname) = i + 1
           /\ Len(loaded) = (IF pc = "entry_line" THEN i + 1 ELSE i)
    /\ pc = "open_entry_template" =>
           file = file0 \o RenderedSection \o RenderedBlocks(i)
    /\ pc \in OptionPromptStates =>
           /\ Len(loaded) = i
           /\ lines = <<>>
           /\ Len(optname) = i
           /\ file = file0 \o RenderedSection \o RenderedBlocks(i)
    /\ pc = "write_line1" =>
           file = file0 \o RenderedSection \o RenderedBlocks(Len(loaded))

Witness_C10 ==
    /\ pc = "input_optformat"
    /\ i = 1
    /\ entryStore.exists /\ loaded[1].exists
    /\ entryStore # loaded[1]
    /\ Len(file) > Len(file0 \o RenderedSection)

====
